---- MODULE Spec2Model ----
(***************************************************************************)
(* Session-scoped workflow engine of the Sasya Arogya FSM agent.           *)
(*                                                                         *)
(* One session record is persisted in `store`.  A user turn loads it       *)
(* (get_or_create_state), drives the LangGraph state graph one node at a   *)
(* time (node executor + routing predicate + path map) and persists the    *)
(* final state (save_state).  LLM replies and tool results are inputs of   *)
(* the environment; every node is modelled as the set of outcomes its      *)
(* execute() can produce on a given state.                                 *)
(***************************************************************************)
EXTENDS Integers, Sequences, FiniteSets, TLC

VARIABLES store, turn, started, ghost, stream, intent

vars == <<store, turn, started, ghost, stream, intent>>

---------------------------------------------------------------------------
(* Bounds of the model *)

\* number of user turns submitted on the session
MaxTurns == 2
\* LangGraph aborts a run whose number of node steps reaches the recursion
\* limit (library default 25); the model uses a smaller limit
RecursionLimit == 6
\* turn slots that may be in flight at the same time under SpecOverlap
MaxInFlight == 2
\* number of user turns submitted under SpecOverlap
MaxOverlapTurns == 2

\* can_retry: retry_count < max_retries
max_retries == 2

Slots == 1..MaxInFlight

---------------------------------------------------------------------------
(* Inputs of a turn *)

\* The text of a user message fixes what the LLM makes of it: the intent
\* record of the initial node, the goodbye verdict, the follow-up action and
\* the fields the keyword scans find.  Tool and service results stay free.
\*   m_diagnose     "what is wrong with this leaf"
\*   m_treat        "yes, diagnose it, give the treatment and show vendors"
\*   m_insure       "insurance for my rice crop"
\*   m_insure_full  "insurance for 5 hectares of rice in karnataka"
\*   m_weather      "how is the weather in Paris"
\*   m_howto        "how often should I water tomatoes"
\*   m_overlay      "where is the infection on the leaf"
\*   m_restart      "let us start over"
\*   m_bye          "bye"
Msgs == {"m_diagnose", "m_treat", "m_insure", "m_insure_full", "m_weather",
         "m_howto", "m_overlay", "m_restart", "m_bye"}

\* the image that comes with a message: always, optionally, never
Images(m) ==
  IF m = "m_diagnose" THEN {TRUE}
  ELSE IF m = "m_treat" THEN BOOLEAN ELSE {FALSE}

MentionsCrop(m) == m \in {"m_insure", "m_insure_full"}
MentionsArea(m) == m = "m_insure_full"
MentionsStateName(m) == m = "m_insure_full"
\* keyword scans of _route_from_vendor_query (substring match)
HasAffirmativeWord(m) == m = "m_treat"
HasNegativeWord(m) == FALSE
\* a goodbye detector that never answers yes
IsGoodbyeNever(m) == FALSE

\* _detect_goodbye_intent
IsGoodbye(m) == m = "m_bye"

\* intent records produced by _analyze_user_intent, named by their shape:
\* "classify", "full", "insurance", "general", "out_of_scope"
_analyze_user_intent(m) ==
  CASE m = "m_diagnose" -> "classify"
    [] m = "m_treat" -> "full"
    [] m \in {"m_insure", "m_insure_full"} -> "insurance"
    [] m = "m_weather" -> "out_of_scope"
    [] OTHER -> "general"

WantsClassification(i) == i \in {"classify", "full"}
WantsPrescription(i) == i = "full"
WantsVendors(i) == i = "full"
WantsInsurance(i) == i = "insurance"
IsGeneralQuestion(i) == i = "general"
OutOfScope(i) == i = "out_of_scope"

\* action of _analyze_followup_intent
_analyze_followup_intent(m) ==
  CASE m = "m_diagnose" -> "classify"
    [] m = "m_treat" -> "prescribe"
    [] m \in {"m_insure", "m_insure_full"} -> "insurance"
    [] m = "m_weather" -> "out_of_scope"
    [] m = "m_howto" -> "direct_response"
    [] m = "m_overlay" -> "attention_overlay"
    [] m = "m_restart" -> "restart"
    [] m = "m_bye" -> "complete"
    [] OTHER -> "other"

InsuranceActions == {"calculate_premium", "get_companies"}

---------------------------------------------------------------------------
(* Session state (WorkflowState).  classification_results holds the dict  *)
(* returned by the classification tool; verbose_fields tells whether that  *)
(* dict still carries raw_predictions, plant_context and attention_overlay *)

NoState == [exists |-> FALSE]

BlankState ==
  [exists |-> TRUE,
   user_message |-> "none", user_image |-> FALSE,
   messages |-> <<>>,
   current_node |-> "none", previous_node |-> "none", next_action |-> "none",
   requires_user_input |-> FALSE, is_complete |-> FALSE,
   session_ended |-> FALSE,
   user_intent |-> "absent",
   classification_results |-> FALSE, verbose_fields |-> FALSE,
   disease_name |-> "none",
   prescription_data |-> FALSE,
   insurance_context |-> FALSE, insurance_results |-> {},
   location |-> FALSE, crop |-> FALSE, area_hectare |-> FALSE,
   assistant_response |-> "none", response_status |-> "none",
   stream_immediately |-> "unset",
   selected_vendor |-> FALSE,
   error_message |-> "none", retry_count |-> 0,
   last_insurance_message |-> "none", insurance_action_count |-> 0]

Msg(role, content) == [role |-> role, content |-> content]

add_message_to_state(s, role, content) ==
  [s EXCEPT !.messages = Append(@, Msg(role, content))]

update_state_node(s, n) ==
  [s EXCEPT !.previous_node = s.current_node, !.current_node = n]

\* test_error_state_clearing.py: error_message set, retry_count + 1 and a
\* system message carrying the error text
set_error(s, e) ==
  add_message_to_state(
    [s EXCEPT !.error_message = e, !.retry_count = @ + 1],
    "system", e)

clear_error(s) == [s EXCEPT !.error_message = "none", !.retry_count = 0]

can_retry(s) == s.retry_count < max_retries

mark_complete(s) == [s EXCEPT !.is_complete = TRUE]

\* adjacent duplicates by (role, content) are dropped, the first one is kept
RECURSIVE DedupSeq(_)
DedupSeq(q) ==
  IF Len(q) <= 1 THEN q
  ELSE LET r == DedupSeq(SubSeq(q, 1, Len(q) - 1))
           x == q[Len(q)]
       IN IF r[Len(r)] = x THEN r ELSE Append(r, x)

deduplicate_messages(s) == [s EXCEPT !.messages = DedupSeq(@)]

\* blank state merged with the inputs on the first turn, the stored state
\* with the new inputs on every later one; the user message is logged
get_or_create_state(st, m, img) ==
  LET base == IF st.exists THEN st ELSE BlankState
  IN add_message_to_state(
       [base EXCEPT !.user_message = m,
                    !.user_image = IF img THEN TRUE ELSE @],
       "user", m)

save_state(st, s) == s

\* outcome of one execute(): the state it leaves, the exception that
\* escaped it ("none" when it returned) and the tool calls it made
Ok(s, tools) == [st |-> s, raised |-> "none", tools |-> tools]
Raise(s, kind, tools) == [st |-> s, raised |-> kind, tools |-> tools]

---------------------------------------------------------------------------
(* initial node *)

HasAssistantMessage(s) ==
  \E k \in 1..Len(s.messages) : s.messages[k].role = "assistant"

UserMessageCount(s) ==
  Cardinality({k \in 1..Len(s.messages) : s.messages[k].role = "user"})

\* a detector that does not look at session_ended
_is_continuing_conversation_ignores_end(s) ==
  HasAssistantMessage(s) \/ s.classification_results \/ s.prescription_data
    \/ s.disease_name # "none"

_is_continuing_conversation(s) ==
  IF s.session_ended THEN FALSE
  ELSE
    LET has_previous_results ==
          s.classification_results \/ s.prescription_data
            \/ s.disease_name # "none"
        has_meaningful_conversation == HasAssistantMessage(s)
        has_workflow_results ==
          s.classification_results \/ s.prescription_data
        has_conversation_history ==
          has_meaningful_conversation \/ has_workflow_results
        was_in_middle_of_workflow == s.current_node # "initial"
        is_in_completed_state ==
          s.current_node = "completed" /\ ~s.requires_user_input
        should_treat_completed_as_new ==
          is_in_completed_state
            /\ ~(has_meaningful_conversation \/ has_workflow_results)
    IN (has_previous_results \/ has_conversation_history
          \/ was_in_middle_of_workflow)
       /\ ~should_treat_completed_as_new

\* results of the context extractor the node distinguishes
\* the extractor may find a location when the message names a state
ContextResults(m) ==
  IF MentionsStateName(m) THEN {"error", "location"} ELSE {"error"}

_process_context_extraction(s, c) ==
  IF c = "location" THEN [s EXCEPT !.location = TRUE]
  ELSE IF c = "plant_type" THEN [s EXCEPT !.crop = TRUE]
  ELSE s

\* the arguments of add_message_to_state are passed as (response, "assistant")
_handle_out_of_scope_request(s) ==
  [add_message_to_state(s, "oos_apology", "assistant")
     EXCEPT !.assistant_response = "oos_apology",
            !.next_action = "completed",
            !.is_complete = TRUE]

InitialDetermineNextAction(s, i) ==
  IF s.user_image /\ WantsClassification(i)
  THEN [add_message_to_state(s, "assistant", "classify_intro")
          EXCEPT !.next_action = "classify"]
  ELSE IF WantsClassification(i) /\ ~s.user_image
  THEN [add_message_to_state(s, "assistant", "image_request")
          EXCEPT !.next_action = "request_image",
                 !.requires_user_input = TRUE]
  ELSE IF WantsInsurance(i)
  THEN [add_message_to_state(s, "assistant", "insurance_intro")
          EXCEPT !.next_action = "insurance"]
  ELSE [add_message_to_state(s, "assistant", "general_help")
          EXCEPT !.next_action = "general_help",
                 !.requires_user_input = TRUE]

InitialNew(s, i) ==
  LET s1 == [s EXCEPT !.user_intent = i]
  IN IF IsGoodbye(s.user_message)
     THEN {Ok([s1 EXCEPT !.next_action = "session_end"], 0)}
     ELSE \* the context extractor raises
          {Ok([set_error(s1, "initial_exception")
                 EXCEPT !.next_action = "error"], 1)}
          \cup
          {Ok(IF OutOfScope(i)
              THEN _handle_out_of_scope_request(
                     _process_context_extraction(s1, c))
              ELSE InitialDetermineNextAction(
                     _process_context_extraction(s1, c), i), 1)
             : c \in ContextResults(s.user_message)}

InitialNode(s0) ==
  LET s == update_state_node(s0, "initial")
  IN IF _is_continuing_conversation(s)
     THEN {Ok([s EXCEPT !.next_action = "followup"], 0)}
     ELSE InitialNew(s, _analyze_user_intent(s.user_message))

---------------------------------------------------------------------------
(* classifying node *)

IntentOf(s) == s.user_intent

_determine_next_action_after_classification(s, is_healthy) ==
  IF is_healthy
  THEN [add_message_to_state(s, "assistant", "great_shape")
          EXCEPT !.next_action = "followup", !.is_complete = FALSE]
  ELSE IF WantsPrescription(IntentOf(s))
  THEN [s EXCEPT !.next_action = "prescribe"]
  ELSE IF WantsVendors(IntentOf(s))
  THEN [s EXCEPT !.next_action = "prescribe"]
  ELSE [add_message_to_state(s, "assistant", "analysis_complete")
          EXCEPT !.next_action = "followup", !.is_complete = FALSE]

_process_successful_classification(s, disease) ==
  _determine_next_action_after_classification(
    add_message_to_state(
      [s EXCEPT !.classification_results = TRUE,
                !.verbose_fields = TRUE,
                !.disease_name = disease,
                !.assistant_response = "classification_report",
                !.response_status = "final",
                !.stream_immediately = "true"],
      "assistant", "classification_report"),
    disease = "healthy")

ClassifyRetryOrFail(s, e) ==
  IF can_retry(s)
  THEN [add_message_to_state(s, "assistant", "retrying")
          EXCEPT !.next_action = "retry"]
  ELSE [set_error(s, e) EXCEPT !.next_action = "error"]

_process_failed_classification(s) == ClassifyRetryOrFail(s, "tool_error")

_handle_classification_exception(s) ==
  ClassifyRetryOrFail(s, "classification_exception")

Diseases == {"healthy", "blight"}

ClassifyingNode(s0) ==
  LET s == update_state_node(s0, "classifying")
  IN IF ~s.user_image
     THEN {Ok([set_error(s, "no_image") EXCEPT !.next_action = "error"], 0)}
     ELSE LET s1 == add_message_to_state(s, "assistant", "analyzing")
          IN {Ok(_process_successful_classification(s1, d), 1)
                : d \in Diseases}
             \cup {Ok(_process_failed_classification(s1), 1),
                   Ok(_handle_classification_exception(s1), 1)}

---------------------------------------------------------------------------
(* error node *)

\* the keywords of _format_user_friendly_error found in the text recorded
\* for error e ("ai" is found inside "failed"); the text of an exception and
\* of a tool's own error report is taken to hold no keyword beyond those of
\* the sentence around it:
\*   no_image                  "No image provided for classification"
\*   tool_error                "Classification failed"
\*   classification_exception  "Classification error: ..."
\*   initial_exception         "Error processing initial request: ..."
\*   followup_exception        "Followup error: ..."
\*   node_exception            "Error in ... node: ..."
\*   none                      "An unknown error occurred"
ErrorKeywords(e) ==
  CASE e = "no_image" -> {"image"}
    [] e = "tool_error" -> {"failed", "ai"}
    [] e = "initial_exception" -> {"error", "processing"}
    [] OTHER -> {"error"}

ErrorTexts == {"insurance_service_unavailable", "diagnosis_unavailable",
               "image_processing_issue", "connection_issue",
               "ai_service_unavailable", "service_unavailable",
               "technical_issue", "unexpected_error"}

\* the first category whose keywords the error text holds; the last two
\* texts quote the error text itself
_format_user_friendly_error(error_msg) ==
  LET kw == ErrorKeywords(error_msg)
  IN IF "mcp" \in kw /\ kw \cap {"server", "not available"} # {}
     THEN "insurance_service_unavailable"
     ELSE IF "model" \in kw /\ kw \cap {"loading", "unavailable"} # {}
     THEN "diagnosis_unavailable"
     ELSE IF "image" \in kw /\ kw \cap {"processing", "failed"} # {}
     THEN "image_processing_issue"
     ELSE IF kw \cap {"connection", "timeout", "network", "unreachable"} # {}
     THEN "connection_issue"
     ELSE IF kw \cap {"llm", "ai", "generation"} # {}
     THEN "ai_service_unavailable"
     ELSE IF "tool" \in kw /\ "not available" \in kw
     THEN "service_unavailable"
     ELSE IF kw \cap {"failed", "error", "exception", "unable"} # {}
     THEN "technical_issue"
     ELSE "unexpected_error"

ErrorNode(s0) ==
  LET s == update_state_node(s0, "error")
  IN {Ok(mark_complete(add_message_to_state(
                         s, "assistant",
                         _format_user_friendly_error(s.error_message))),
         0)}

---------------------------------------------------------------------------
(* insurance node *)

\* the state is not asked for
_check_required_context_without_state(s) ==
  {f \in {"area_hectare", "crop"} :
     \/ f = "area_hectare" /\ ~(s.area_hectare \/ MentionsArea(s.user_message))
     \/ f = "crop" /\ ~(s.crop \/ MentionsCrop(s.user_message))}

\* required fields state, area_hectare, crop: taken from the state
\* (location/state, area_hectare, plant_type/crop) and, for area and crop,
\* from the user message
_check_required_context(s) ==
  {f \in {"state", "area_hectare", "crop"} :
     \/ f = "state" /\ ~s.location
     \/ f = "area_hectare" /\ ~(s.area_hectare \/ MentionsArea(s.user_message))
     \/ f = "crop" /\ ~(s.crop \/ MentionsCrop(s.user_message))}

\* explicit wants_insurance_* flag first, LLM / keyword fallback otherwise
PossibleInsuranceActions(s) == InsuranceActions

_store_insurance_results(s, action) ==
  [s EXCEPT !.insurance_results = @ \cup {action},
            !.area_hectare = IF action = "get_companies" THEN @ ELSE TRUE]

InsuranceDetermineNextAction(s) ==
  [s EXCEPT !.insurance_action_count = 0, !.next_action = "completed"]

InsuranceSuccess(s, action) ==
  InsuranceDetermineNextAction(
    [add_message_to_state(
       [_store_insurance_results(clear_error(s), action)
          EXCEPT !.stream_immediately = "true"],
       "assistant", "insurance_response")
     EXCEPT !.requires_user_input = FALSE])

InsuranceFailure(s) ==
  [set_error(s, "tool_error") EXCEPT !.next_action = "error"]

InsuranceRephrase(s) ==
  [add_message_to_state(s, "assistant", "rephrase_prompt")
     EXCEPT !.stream_immediately = "true",
            !.next_action = "await_user_input",
            !.requires_user_input = TRUE,
            !.insurance_action_count = 0,
            !.last_insurance_message = "none"]

InsuranceGuardFires(s) ==
  /\ s.last_insurance_message = s.user_message
  /\ s.insurance_action_count + 1 >= 3

InsuranceNode(s0) ==
  LET s == update_state_node(s0, "insurance")
      count == IF s.last_insurance_message = s.user_message
               THEN s.insurance_action_count + 1 ELSE 1
  IN IF InsuranceGuardFires(s)
     THEN {Ok(InsuranceRephrase(s), 0)}
     ELSE
       LET s1 == [s EXCEPT !.last_insurance_message = s.user_message,
                           !.insurance_action_count = count,
                           !.insurance_context = TRUE]
       IN IF _check_required_context(s1) # {}
          THEN {Ok([add_message_to_state(s1, "assistant", "missing_info_prompt")
                      EXCEPT !.stream_immediately = "true",
                             !.next_action = "followup",
                             !.requires_user_input = TRUE], 0)}
          ELSE
            LET s2 == [add_message_to_state(s1, "assistant", "processing")
                         EXCEPT !.stream_immediately = "true"]
            IN {Ok(InsuranceSuccess(s2, a), 1)
                  : a \in PossibleInsuranceActions(s1)}
               \cup {Ok(InsuranceFailure(s2), 1)}

---------------------------------------------------------------------------
(* followup node *)

_handle_general_help_action(s) ==
  [add_message_to_state(s, "assistant", "followup_help")
     EXCEPT !.next_action = "general_help", !.requires_user_input = TRUE]

_handle_direct_response_action(s) ==
  [add_message_to_state(
     [s EXCEPT !.assistant_response = "direct_answer",
               !.response_status = "intermediate",
               !.stream_immediately = "false"],
     "assistant", "direct_answer")
   EXCEPT !.next_action = "await_user_input", !.requires_user_input = TRUE]

_handle_prescribe_action(s) == [s EXCEPT !.next_action = "prescribe"]

\* classification tool called in place when an image is attached
_handle_classify_action(s) ==
  IF s.user_image
  THEN {Ok([add_message_to_state(
              [s EXCEPT !.classification_results = TRUE,
                        !.verbose_fields = TRUE,
                        !.disease_name = d],
              "assistant", "followup_classification")
            EXCEPT !.assistant_response = "followup_classification",
                   !.response_status = "final",
                   !.stream_immediately = "true",
                   !.next_action = "await_user_input",
                   !.requires_user_input = TRUE], 1) : d \in Diseases}
       \cup {Ok([s EXCEPT !.next_action = "classify"], 1)}
  ELSE {Ok([add_message_to_state(s, "assistant", "image_request")
              EXCEPT !.next_action = "request_image",
                     !.requires_user_input = TRUE], 0)}

_handle_attention_overlay_action(s) ==
  {Ok([add_message_to_state(s, "assistant", "overlay_reply")
         EXCEPT !.next_action = "general_help",
                !.requires_user_input = TRUE], 1),
   Ok([add_message_to_state(s, "assistant", "overlay_failed")
         EXCEPT !.next_action = "general_help"], 1)}

_handle_restart_action(s) ==
  [add_message_to_state([s EXCEPT !.next_action = "restart"],
                        "assistant", "restart_notice")
     EXCEPT !.requires_user_input = TRUE]

_show_ongoing_support(s) ==
  [add_message_to_state([s EXCEPT !.next_action = "general_help"],
                        "assistant", "ongoing_support")
     EXCEPT !.requires_user_input = TRUE]

\* goodbye is asked a second time
_handle_complete_action(s) ==
  IF IsGoodbye(s.user_message) THEN [s EXCEPT !.next_action = "session_end"]
  ELSE _show_ongoing_support(s)

\* user_intent replaced by the insurance sub-intent record
_handle_insurance_action(s) ==
  [s EXCEPT !.user_intent = "insurance", !.next_action = "insurance"]

\* an out-of-scope handler that restarts the workflow
_handle_out_of_scope_action_restarts(s) ==
  [add_message_to_state(s, "oos_apology", "assistant")
     EXCEPT !.assistant_response = "oos_apology",
            !.next_action = "restart",
            !.is_complete = TRUE]

_handle_out_of_scope_action(s) ==
  [add_message_to_state(s, "oos_apology", "assistant")
     EXCEPT !.assistant_response = "oos_apology",
            !.next_action = "completed",
            !.is_complete = TRUE]

\* a summary handler that asks for the classification again
_handle_classification_complete_followup_reclassify(s) ==
  [add_message_to_state(s, "assistant", "classification_summary")
     EXCEPT !.next_action = "classify", !.requires_user_input = TRUE]

_handle_classification_complete_followup(s) ==
  [add_message_to_state(s, "assistant", "classification_summary")
     EXCEPT !.next_action = "completed", !.requires_user_input = TRUE]

_handle_prescription_complete_followup(s) ==
  [add_message_to_state(s, "assistant", "prescription_summary")
     EXCEPT !.next_action = "completed", !.requires_user_input = TRUE]

_handle_insurance_complete_followup(s) ==
  [add_message_to_state(
     [s EXCEPT !.assistant_response = "insurance_summary",
               !.response_status = "final",
               !.stream_immediately = "true"],
     "assistant", "insurance_summary")
   EXCEPT !.next_action = "completed", !.requires_user_input = FALSE]

\* crop, area and state name are scanned in the user message
_handle_insurance_missing_info_followup(s) ==
  LET m == s.user_message
      missing_info_provided ==
        MentionsCrop(m) \/ MentionsArea(m) \/ MentionsStateName(m)
  IN IF missing_info_provided
     THEN {Ok([s EXCEPT !.crop = IF MentionsCrop(m) THEN TRUE ELSE @,
                        !.area_hectare = IF MentionsArea(m) THEN TRUE ELSE @,
                        !.location = IF MentionsStateName(m) THEN TRUE ELSE @,
                        !.requires_user_input = FALSE,
                        !.next_action = "insurance"], 0)}
     ELSE LET a == _analyze_followup_intent(m)
          IN IF a = "classify"
             THEN {Ok([o.st EXCEPT !.requires_user_input = FALSE], o.tools)
                     : o \in _handle_classify_action(s)}
             ELSE {Ok([(IF a = "prescribe" THEN _handle_prescribe_action(s)
                        ELSE IF a = "direct_response"
                        THEN _handle_direct_response_action(s)
                        ELSE _handle_general_help_action(s))
                         EXCEPT !.requires_user_input = FALSE], 0)}

FollowupNormalFlow(s) ==
  LET a == _analyze_followup_intent(s.user_message)
  IN CASE a = "classify" -> _handle_classify_action(s)
       [] a = "attention_overlay" -> _handle_attention_overlay_action(s)
       [] a = "prescribe" -> {Ok(_handle_prescribe_action(s), 0)}
       [] a = "restart" -> {Ok(_handle_restart_action(s), 0)}
       [] a = "complete" -> {Ok(_handle_complete_action(s), 0)}
       [] a = "direct_response" -> {Ok(_handle_direct_response_action(s), 0)}
       [] a = "insurance" -> {Ok(_handle_insurance_action(s), 0)}
       [] a = "out_of_scope" -> {Ok(_handle_out_of_scope_action(s), 0)}
       [] OTHER -> {Ok(_handle_general_help_action(s), 0)}

FollowupNode(s0) ==
  LET s == update_state_node(s0, "followup")
  IN \* an exception inside the try block
     {Ok([set_error(s, "followup_exception") EXCEPT !.next_action = "error"],
         0)}
     \cup
     (IF IsGoodbye(s.user_message)
      THEN {Ok([s EXCEPT !.next_action = "session_end"], 0)}
      ELSE IF s.previous_node = "classifying" /\ s.classification_results
      THEN {Ok(_handle_classification_complete_followup(s), 0)}
      ELSE IF s.previous_node = "prescribing" /\ s.prescription_data
      THEN {Ok(_handle_prescription_complete_followup(s), 0)}
      ELSE IF s.previous_node = "insurance" /\ s.requires_user_input
      THEN _handle_insurance_missing_info_followup(s)
      ELSE IF s.previous_node = "insurance"
                /\ ({"calculate_premium", "recommend"}
                      \cap s.insurance_results # {})
      THEN {Ok(_handle_insurance_complete_followup(s), 0)}
      ELSE FollowupNormalFlow(s))

---------------------------------------------------------------------------
(* completed node: no try block around its body *)

\* services the session has used, by the result fields that are present
_analyze_services_used(s) ==
  {v \in {"classification", "prescription", "insurance"} :
     \/ v = "classification"
          /\ (s.classification_results \/ s.disease_name # "none")
     \/ v = "prescription" /\ s.prescription_data
     \/ v = "insurance" /\ (s.insurance_context \/ s.insurance_results # {})}

\* services whose entry in state["tool_results"] holds an error: no node
\* writes that key
tool_results(s) == {}

\* the persistent error_message decides
_check_service_errors_persistent(service, s) ==
  IF s.error_message # "none" THEN "tool_error" ELSE "none"

\* the kind of error found for a service, "none" when it succeeded
_check_service_errors(service, s) ==
  LET has_data ==
        IF service = "classification"
        THEN s.classification_results \/ s.disease_name # "none"
        ELSE IF service = "prescription" THEN s.prescription_data
        ELSE s.insurance_results # {}
  IN IF ~has_data THEN "no_results"
     ELSE IF service \in tool_results(s) THEN "tool_error"
     ELSE "none"

\* summary of the services used; a service with an error turns it into a
\* failure notice
_create_contextual_completion_message(s) ==
  IF \E v \in _analyze_services_used(s) : _check_service_errors(v, s) # "none"
  THEN "completion_with_failures"
  ELSE "completion_message"

\* an existing response is passed on with next steps added, otherwise the
\* contextual summary is built
\* the existing response followed by the next steps; the steps the LLM
\* proposes are taken to be the same for the same response
_create_clean_followup_response(direct_response) ==
  direct_response \o "+next_steps"

_create_clean_workflow_completion(workflow_response) ==
  workflow_response \o "+what_next"

CompletedNode(s0) ==
  LET s == update_state_node(s0, "completed")
      completion_message ==
        IF s.assistant_response # "none" /\ s.previous_node = "followup"
        THEN _create_clean_followup_response(s.assistant_response)
        ELSE IF s.assistant_response # "none"
        THEN _create_clean_workflow_completion(s.assistant_response)
        ELSE _create_contextual_completion_message(s)
  IN {Ok([add_message_to_state(
            [s EXCEPT !.assistant_response = completion_message,
                      !.response_status = "final",
                      !.stream_immediately = "true"],
            "assistant", completion_message)
          EXCEPT !.is_complete = FALSE], 0),
      Raise(s, "Exception", 0)}

---------------------------------------------------------------------------
(* nodes whose source is not part of the repository snapshot *)

\* disease_name missing: back to classification; otherwise the tool result
\* or the rule-based fallback is stored and the intent picks the next step
PrescribingNode(s0) ==
  LET s == update_state_node(s0, "prescribing")
  IN IF s.disease_name = "none"
     THEN {Ok([s EXCEPT !.next_action = "classify"], 0)}
     ELSE {Ok([add_message_to_state([s EXCEPT !.prescription_data = TRUE],
                                    "assistant", "prescription")
                 EXCEPT !.next_action =
                          IF WantsVendors(IntentOf(s)) THEN "vendor_query"
                          ELSE "complete"], 1),
           Raise(s, "Exception", 1),
           Raise(s, "ImportError", 1)}

VendorQueryNode(s0) ==
  LET s == update_state_node(s0, "vendor_query")
  IN {Ok([add_message_to_state(s, "assistant", "vendor_question")
            EXCEPT !.next_action = a], 0)
        : a \in {"await_vendor_response", "error"}}

ShowVendorsNode(s0) ==
  LET s == update_state_node(s0, "show_vendors")
  IN {Ok([add_message_to_state(s, "assistant", "vendor_list")
            EXCEPT !.next_action = "await_vendor_selection"], 1),
      Ok([add_message_to_state(s, "assistant", "vendor_list")
            EXCEPT !.next_action = "order", !.selected_vendor = TRUE], 1),
      Ok([s EXCEPT !.next_action = "complete"], 1)}

OrderBookingNode(s0) ==
  LET s == update_state_node(s0, "order_booking")
  IN {Ok([add_message_to_state(s, "assistant", "order_status")
            EXCEPT !.next_action = a], 0)
        : a \in {"await_final_input", "complete"}}

SessionEndNode(s0) ==
  LET s == update_state_node(s0, "session_end")
  IN {Ok([add_message_to_state(s, "assistant", "farewell")
            EXCEPT !.session_ended = TRUE], 0)}

---------------------------------------------------------------------------
(* node executor *)

Nodes == {"initial", "classifying", "prescribing", "vendor_query",
          "show_vendors", "order_booking", "insurance", "followup",
          "completed", "session_end", "error"}

execute(n, s) ==
  CASE n = "initial" -> InitialNode(s)
    [] n = "classifying" -> ClassifyingNode(s)
    [] n = "prescribing" -> PrescribingNode(s)
    [] n = "vendor_query" -> VendorQueryNode(s)
    [] n = "show_vendors" -> ShowVendorsNode(s)
    [] n = "order_booking" -> OrderBookingNode(s)
    [] n = "insurance" -> InsuranceNode(s)
    [] n = "followup" -> FollowupNode(s)
    [] n = "completed" -> CompletedNode(s)
    [] n = "session_end" -> SessionEndNode(s)
    [] n = "error" -> ErrorNode(s)

\* except Exception: set_error, next_action = "error", return state
ExecutorCatch(s) ==
  [set_error(s, "node_exception") EXCEPT !.next_action = "error"]

Result(s, raised, execs, tools) ==
  [st |-> s, raised |-> raised, execs |-> execs, tools |-> tools]

\* except ImportError around the observability imports and the node call:
\* the node is executed again on the state the first run left
OnImportError(n, o) ==
  {IF p.raised = "none"
   THEN Result(p.st, "ImportError", 2, o.tools + p.tools)
   ELSE Result(ExecutorCatch(p.st), "ImportError", 2, o.tools + p.tools)
     : p \in execute(n, o.st)}

\* observability is importable (tracing initialised or not): the node runs
\* inside the inner try; it is not importable: the node runs once in the
\* except ImportError branch
node_executor(n, s) ==
  LET first == execute(n, s)
  IN {Result(o.st, "none", 1, o.tools) : o \in {x \in first : x.raised = "none"}}
     \cup
     {Result(ExecutorCatch(o.st), o.raised, 1, o.tools)
        : o \in {x \in first : x.raised = "Exception"}}
     \cup
     UNION {OnImportError(n, o) : o \in {x \in first : x.raised = "ImportError"}}
     \cup
     {Result(ExecutorCatch(o.st), o.raised, 1, o.tools)
        : o \in {x \in first : x.raised = "ImportError"}}

---------------------------------------------------------------------------
(* routing predicates and the path maps of _build_workflow *)

\* a routing predicate that forgets the insurance branch
_route_from_initial_no_insurance(s) ==
  IF s.next_action = "classify" THEN "classifying"
  ELSE IF s.next_action = "error" THEN "error"
  ELSE "followup"

_route_from_initial(s) ==
  IF s.next_action = "classify" THEN "classifying"
  ELSE IF s.next_action = "insurance" THEN "insurance"
  ELSE IF s.next_action = "error" THEN "error"
  ELSE "followup"

_route_from_classifying(s) ==
  IF s.next_action = "prescribe" THEN "prescribing"
  ELSE IF s.next_action = "completed" THEN "completed"
  ELSE IF s.next_action = "retry" THEN "retry"
  ELSE IF s.next_action = "error" THEN "error"
  ELSE "followup"

_route_from_prescribing(s) ==
  IF s.next_action = "vendor_query" THEN "vendor_query"
  ELSE IF s.next_action = "complete" THEN "completed"
  ELSE IF s.next_action = "retry" THEN "retry"
  ELSE IF s.next_action = "classify" THEN "classifying"
  ELSE IF s.next_action = "error" THEN "error"
  ELSE "followup"

_route_from_vendor_query(s) ==
  IF HasAffirmativeWord(s.user_message) THEN "show_vendors"
  ELSE IF HasNegativeWord(s.user_message) THEN "completed"
  ELSE IF s.next_action = "error" THEN "error"
  ELSE "followup"

_route_from_show_vendors(s) ==
  IF s.next_action = "await_vendor_selection" THEN "followup"
  ELSE IF s.next_action = "order" /\ s.selected_vendor THEN "order_booking"
  ELSE IF s.next_action = "error" THEN "error"
  ELSE "completed"

_route_from_order_booking(s) ==
  IF s.next_action = "await_final_input" THEN "followup"
  ELSE IF s.next_action = "error" THEN "error"
  ELSE "completed"

_route_from_insurance(s) ==
  IF s.next_action = "prescribing" THEN "prescribing"
  ELSE IF s.next_action = "vendor_query" THEN "vendor_query"
  ELSE IF s.next_action = "completed" THEN "completed"
  ELSE IF s.next_action = "error" THEN "error"
  ELSE "followup"

routing_map ==
  [a \in {"restart", "classify", "prescribe", "show_vendors", "insurance",
          "session_end", "error", "await_user_input"} |->
     CASE a = "restart" -> "initial"
       [] a = "classify" -> "classifying"
       [] a = "prescribe" -> "prescribing"
       [] a = "show_vendors" -> "show_vendors"
       [] a = "insurance" -> "insurance"
       [] a = "session_end" -> "session_end"
       [] a = "error" -> "error"
       [] a = "await_user_input" -> "completed"]

_route_from_followup(s) ==
  IF s.next_action \in DOMAIN routing_map THEN routing_map[s.next_action]
  ELSE "completed"

\* a route from completed that ends the session
_route_from_completed_ends_session(s) == "session_end"

_route_from_completed(s) == "completed"

Route(n, s) ==
  CASE n = "initial" -> _route_from_initial(s)
    [] n = "classifying" -> _route_from_classifying(s)
    [] n = "prescribing" -> _route_from_prescribing(s)
    [] n = "vendor_query" -> _route_from_vendor_query(s)
    [] n = "show_vendors" -> _route_from_show_vendors(s)
    [] n = "order_booking" -> _route_from_order_booking(s)
    [] n = "insurance" -> _route_from_insurance(s)
    [] n = "followup" -> _route_from_followup(s)
    [] n = "completed" -> _route_from_completed(s)
    [] OTHER -> "__end__"

Same(S) == [x \in S |-> x]

\* label -> target of add_conditional_edges / add_edge, per source node
PathMapInitial ==
  Same({"classifying", "insurance", "followup", "error", "completed"})

PathMapClassifying ==
  [l \in {"prescribing", "completed", "followup", "error", "retry"} |->
     IF l = "retry" THEN "classifying" ELSE l]

PathMapPrescribing ==
  [l \in {"vendor_query", "followup", "completed", "error", "retry"} |->
     IF l = "retry" THEN "prescribing" ELSE l]

PathMapVendorQuery ==
  Same({"show_vendors", "completed", "followup", "error"})

PathMapShowVendors ==
  Same({"order_booking", "followup", "completed", "error"})

PathMapOrderBooking == Same({"completed", "followup", "error"})

PathMapInsurance ==
  Same({"prescribing", "vendor_query", "followup", "completed", "error"})

PathMapFollowup ==
  Same({"initial", "classifying", "prescribing", "vendor_query",
        "show_vendors", "insurance", "completed", "session_end", "error"})

PathMapCompleted ==
  [l \in {"session_end", "completed"} |->
     IF l = "completed" THEN "END" ELSE l]

PathMapTerminal == [l \in {"__end__"} |-> "END"]

PathMap(n) ==
  CASE n = "initial" -> PathMapInitial
    [] n = "classifying" -> PathMapClassifying
    [] n = "prescribing" -> PathMapPrescribing
    [] n = "vendor_query" -> PathMapVendorQuery
    [] n = "show_vendors" -> PathMapShowVendors
    [] n = "order_booking" -> PathMapOrderBooking
    [] n = "insurance" -> PathMapInsurance
    [] n = "followup" -> PathMapFollowup
    [] n = "completed" -> PathMapCompleted
    [] OTHER -> PathMapTerminal

\* node selected after n on post-node state s; "KeyError" when the label
\* returned by the routing predicate is not a key of the path map
NextNode(n, s) ==
  LET label == Route(n, s)
  IN IF label \in DOMAIN PathMap(n) THEN PathMap(n)[label] ELSE "KeyError"

---------------------------------------------------------------------------
(* streaming layer: the flat state of a chunk, its delta against the       *)
(* previous one and the payload of the state_update event                  *)

\* keys that are neither tracked nor streamed
Excluded ==
  {"user_image", "image", "attention_overlay", "messages", "last_update_time"}

\* sub-fields the classification tool returns besides the diagnosis
verbose_fields == {"raw_predictions", "plant_context", "attention_overlay"}

\* keys of the dict stored under classification_results, the diagnosis
\* standing for the fields that are never deleted; empty when no dict is
\* stored.  The CNN returns a heat map with every diagnosis
_format_final_result(s) ==
  IF ~s.classification_results THEN {}
  ELSE IF s.verbose_fields
       THEN {"disease_name", "plant_context", "attention_overlay"}
  ELSE {"disease_name"}

\* the state dict a node returned, as astream hands it over: one value per
\* key, the stored classification dict by its keys, the timestamp of the
\* node update by the position of the node in the run
actual_state_data(s, time) ==
  [k \in (DOMAIN s \ {"exists", "verbose_fields"}) \cup {"last_update_time"} |->
     IF k = "last_update_time" THEN time
     ELSE IF k = "classification_results" THEN _format_final_result(s)
     ELSE s[k]]

_calculate_state_delta(current_state, previous_state) ==
  LET keys ==
        IF DOMAIN previous_state = {}
        THEN DOMAIN current_state \ Excluded
        ELSE {k \in DOMAIN current_state \ Excluded :
                \/ k \notin DOMAIN previous_state
                \/ previous_state[k] # current_state[k]}
  IN [k \in keys |-> current_state[k]]

_create_clean_state_copy_from_actual_data(d) ==
  [k \in DOMAIN d \ Excluded |-> d[k]]

\* delete of the verbose fields left out
_filter_chunk_for_streaming_keeps_verbose(chunk) ==
  [k \in DOMAIN chunk \ (Excluded \cup {"assistant_response"}) |-> chunk[k]]

\* stream_in_state_update is never set to true and response_status never to
\* "state_only" by a node, so that assistant_response is always removed
_filter_chunk_for_streaming(chunk) ==
  LET stream_in_state ==
        IF "stream_in_state_update" \in DOMAIN chunk
        THEN chunk["stream_in_state_update"] ELSE FALSE
      response_status ==
        IF "response_status" \in DOMAIN chunk
        THEN chunk["response_status"] ELSE "final"
      removed ==
        {"user_image", "image", "attention_overlay", "messages",
         "last_update_time"}
        \cup IF ~stream_in_state /\ response_status # "state_only"
             THEN {"assistant_response"} ELSE {}
  IN [k \in DOMAIN chunk \ removed |->
        IF k = "classification_results"
        THEN chunk[k] \ verbose_fields
        ELSE chunk[k]]

\* keys of a state_update payload, those of the nested classification
\* dict included
PayloadKeys(p) ==
  DOMAIN p \cup (IF "classification_results" \in DOMAIN p
                 THEN p["classification_results"] ELSE {})

\* the filter deletes from the dict the delta shares with the state: what
\* the payload holds under classification_results is what the state holds
FilteredInPlace(s, delta) ==
  IF "classification_results" \in DOMAIN delta
     /\ delta["classification_results"] # {}
  THEN [s EXCEPT !.verbose_fields =
          _filter_chunk_for_streaming(delta)["classification_results"]
            \cap verbose_fields # {}]
  ELSE s

\* a dict of the delta that carries a non-empty attention_overlay
temp_attention_overlay(delta) ==
  /\ "classification_results" \in DOMAIN delta
  /\ "attention_overlay" \in delta["classification_results"]

\* hash(overlay[:100] + session_id + source_node) of the one session; the
\* overlay is the heat map of the diagnosis the tool returned
overlay_hash(s) == <<s.disease_name, s.current_node>>

---------------------------------------------------------------------------
(* turns: process_message and stream_process_message *)

IdleTurn ==
  [pc |-> "idle", entry |-> "none", id |-> 0, at |-> "none",
   loaded |-> NoState, st |-> NoState, trace |-> <<>>, saves |-> 0, out |-> "none",
   last |-> [node |-> "none", raised |-> "none", execs |-> 0, tools |-> 0]]

NoGhost ==
  [lastWriter |-> 0, insMsg |-> "none", insRun |-> 0]

\* what the streaming layer keeps: the overlay hashes and the last three
\* response hashes of the session (attributes of the workflow object), the
\* keys of the delta of the chunk at hand, and a log of what was sent: the
\* payload keys
\* of the last state_update, the assistant_response of the last chunk, the
\* assistant_response events of the turn in order, the overlays sent once
\* and more than once; arrived is the classification dict of the last
\* chunk as it was when the chunk came in
NoStream ==
  [overlay_hashes |-> {}, recent_hashes |-> <<>>,
   delta |-> {}, arrived |-> {}, changed |-> {},
   update |-> {}, response |-> "none", events |-> <<>>,
   sent |-> {}, resent |-> {}]

\* no intent record built yet
NoRecord == [done |-> FALSE, keys |-> {}, true |-> {}]

\* no intent analysis at hand
NoIntent == [json |-> FALSE, reply |-> {}, message |-> {}, record |-> NoRecord]

Init ==
  /\ store = NoState
  /\ turn = [t \in Slots |-> IdleTurn]
  /\ started = 0
  /\ ghost = NoGhost
  /\ stream = NoStream
  /\ intent = NoIntent

\* get_or_create_state, then the graph is entered at the initial node
StartTurn(t, limit) ==
  /\ turn[t].pc = "idle"
  /\ started < limit
  /\ \E m \in Msgs : \E img \in Images(m) :
       /\ turn' = [turn EXCEPT ![t] =
                  [IdleTurn EXCEPT !.pc = "run",
                                   !.id = started + 1,
                                   !.loaded = store,
                                   !.at = "initial",
                                   !.st = get_or_create_state(store, m, img)]]
  /\ started' = started + 1
  /\ UNCHANGED <<store, ghost, stream, intent>>

\* get_or_create_state raises: the turn ends before the graph is entered
LoadException(t, limit) ==
  /\ turn[t].pc = "idle"
  /\ started < limit
  /\ turn' = [turn EXCEPT ![t] =
               [IdleTurn EXCEPT !.pc = "ended", !.out = "error",
                                !.id = started + 1,
                                !.loaded = store]]
  /\ started' = started + 1
  /\ UNCHANGED <<store, ghost, stream, intent>>

\* consecutive entries into the insurance node with the same user_message
InsuranceEntry(g, s) ==
  [g EXCEPT !.insRun = IF g.insMsg # s.user_message THEN 1
                       ELSE IF @ < 4 THEN @ + 1 ELSE @,
            !.insMsg = s.user_message]

\* one superstep: the executor runs node n, the routing predicate of n picks
\* the next node through the path map
RunNode(t, n) ==
  /\ turn[t].pc = "run"
  /\ turn[t].at = n
  /\ Len(turn[t].trace) < RecursionLimit
  /\ \E o \in node_executor(n, turn[t].st) :
       LET nxt == NextNode(n, o.st)
           rec == [node |-> n, raised |-> o.raised, execs |-> o.execs,
                   tools |-> o.tools]
       IN /\ turn' = [turn EXCEPT
                        ![t].st = o.st,
                        ![t].trace = Append(@, n),
                        ![t].last = rec,
                        ![t].at = nxt,
                        ![t].pc = IF nxt = "KeyError" THEN "ended"
                                  ELSE IF nxt = "END" THEN "save" ELSE "run",
                        ![t].out = IF nxt = "KeyError" THEN "error" ELSE @]
          /\ ghost' = IF n = "insurance"
                      THEN InsuranceEntry(ghost, turn[t].st) ELSE ghost
  /\ UNCHANGED <<store, started, stream, intent>>

RunInitial(t) == RunNode(t, "initial")
RunClassifying(t) == RunNode(t, "classifying")
RunPrescribing(t) == RunNode(t, "prescribing")
RunVendorQuery(t) == RunNode(t, "vendor_query")
RunShowVendors(t) == RunNode(t, "show_vendors")
RunOrderBooking(t) == RunNode(t, "order_booking")
RunInsurance(t) == RunNode(t, "insurance")
RunFollowup(t) == RunNode(t, "followup")
RunCompleted(t) == RunNode(t, "completed")
RunSessionEnd(t) == RunNode(t, "session_end")
RunError(t) == RunNode(t, "error")

\* GraphRecursionError: the step budget is used up before END is reached
RecursionError(t) ==
  /\ turn[t].pc = "run"
  /\ Len(turn[t].trace) >= RecursionLimit
  /\ turn' = [turn EXCEPT ![t].pc = "ended", ![t].out = "error"]
  /\ UNCHANGED <<store, started, ghost, stream, intent>>

\* an exception handler that persists the state of the chunk it failed on
StreamExceptionPersists(t) ==
  /\ turn[t].pc = "run"
  /\ Len(turn[t].trace) >= 1
  /\ store' = turn[t].st
  /\ turn' = [turn EXCEPT ![t] =
               [IdleTurn EXCEPT !.pc = "ended", !.out = "error",
                                !.entry = "stream", !.id = turn[t].id,
                                !.loaded = turn[t].loaded]]
  /\ UNCHANGED <<started, ghost, stream, intent>>

\* an exception raised while a streamed chunk is turned into events:
\* except Exception yields the error event
StreamException(t) ==
  /\ turn[t].pc = "run"
  /\ Len(turn[t].trace) >= 1
  /\ turn' = [turn EXCEPT ![t] =
               [IdleTurn EXCEPT !.pc = "ended", !.out = "error",
                                !.entry = "stream", !.id = turn[t].id,
                                !.loaded = turn[t].loaded]]
  /\ UNCHANGED <<store, started, ghost, stream, intent>>

\* state written at the end of the run: ainvoke's result, or the state of
\* the last chunk after deduplicate_messages.  On the streaming path every
\* classification dict has been through the filter: the one loaded with
\* the session in the first delta, a new one in the delta of its node
FinalState(e, s) ==
  IF e = "stream"
  THEN deduplicate_messages(
         FilteredInPlace(s, _calculate_state_delta(actual_state_data(s, 0),
                                                   <<>>)))
  ELSE s

\* a turn that reports success without writing the session
SaveTurnSkipped(t, e) ==
  /\ turn[t].pc = "save"
  /\ turn' = [turn EXCEPT ![t].pc = "ended", ![t].out = "ok",
                          ![t].entry = e]
  /\ UNCHANGED <<store, started, ghost, stream, intent>>

SaveTurn(t, e) ==
  /\ turn[t].pc = "save"
  /\ store' = save_state(store, FinalState(e, turn[t].st))
  /\ turn' = [turn EXCEPT ![t].pc = "ended", ![t].out = "ok",
                          ![t].entry = e, ![t].saves = @ + 1]
  /\ ghost' = [ghost EXCEPT !.lastWriter = turn[t].id]
  /\ UNCHANGED <<started, stream, intent>>

\* the tail of the two entry points, which share everything before it
process_message(t) == SaveTurn(t, "process")
stream_process_message(t) == SaveTurn(t, "stream")

\* a cancellation handler that persists whatever the turn has reached
CancelPersists(t) ==
  /\ turn[t].pc \in {"run", "yield", "save"}
  /\ store' = turn[t].st
  /\ turn' = [turn EXCEPT ![t] =
               [IdleTurn EXCEPT !.pc = "ended", !.out = "cancelled",
                                !.id = turn[t].id,
                                !.loaded = turn[t].loaded]]
  /\ UNCHANGED <<started, ghost, stream, intent>>

\* the client disconnects / the task is cancelled at an await or the
\* generator is closed at a yield: neither except Exception nor the save is
\* reached
Cancel(t) ==
  /\ turn[t].pc \in {"run", "yield", "save"}
  /\ turn' = [turn EXCEPT ![t] =
               [IdleTurn EXCEPT !.pc = "ended", !.out = "cancelled",
                                !.id = turn[t].id,
                                !.loaded = turn[t].loaded]]
  /\ UNCHANGED <<store, started, ghost, stream, intent>>

\* the turn is over and the locals of its generator are gone; what the
\* workflow object holds of the session stays
Retire(t) ==
  /\ turn[t].pc = "ended"
  /\ turn' = [turn EXCEPT ![t] = IdleTurn]
  /\ stream' = [NoStream EXCEPT
                  !.overlay_hashes = stream.overlay_hashes,
                  !.recent_hashes = stream.recent_hashes,
                  !.sent = stream.sent,
                  !.resent = stream.resent]
  /\ UNCHANGED <<store, started, ghost, intent>>

Step(t, limit) ==
  \/ StartTurn(t, limit)
  \/ LoadException(t, limit)
  \/ RunInitial(t)
  \/ RunClassifying(t)
  \/ RunPrescribing(t)
  \/ RunVendorQuery(t)
  \/ RunShowVendors(t)
  \/ RunOrderBooking(t)
  \/ RunInsurance(t)
  \/ RunFollowup(t)
  \/ RunCompleted(t)
  \/ RunSessionEnd(t)
  \/ RunError(t)
  \/ RecursionError(t)
  \/ StreamException(t)
  \/ process_message(t)
  \/ stream_process_message(t)
  \/ Cancel(t)
  \/ Retire(t)

\* turns of one session submitted one after the other
Next == Step(1, MaxTurns)

Spec == Init /\ [][Next]_vars

\* a session that lasts one turn longer: results of a first turn, a
\* farewell, and a turn after it
NextLong == Step(1, MaxTurns + 1)

SpecLong == Init /\ [][NextLong]_vars

\* turns of one session submitted while another is still in flight
NextOverlap == \E t \in Slots : Step(t, MaxOverlapTurns)

SpecOverlap == Init /\ [][NextOverlap]_vars

---------------------------------------------------------------------------
(* stream_process_message, chunk by chunk *)

\* keys of the chunk whose value is not the one the previous chunk came in
\* with (every key on the first chunk of a turn)
ChangedKeys(cur, seen) ==
  {k \in DOMAIN cur : k \notin DOMAIN seen \/ seen[k] # cur[k]}

\* the content hash of the response is not looked up
should_stream_ignores_recent(s, recent_hashes) ==
  /\ s.assistant_response # "none"
  /\ s.stream_immediately # "false"
  /\ s.response_status # "intermediate"

\* should_stream: the response is not among the last three streamed, the
\* node did not ask for delayed streaming, the response is not intermediate
should_stream(s, recent_hashes) ==
  /\ s.assistant_response # "none"
  /\ \A i \in 1..Len(recent_hashes) : recent_hashes[i] # s.assistant_response
  /\ s.stream_immediately # "false"
  /\ s.response_status # "intermediate"

\* the loop body after the overlay part: the delta is filtered and sent as
\* state_update, assistant_response is sent under should_stream and its
\* hash appended to the last three
StreamUpdateAndResponse(sm, s, delta) ==
  LET filtered_delta == _filter_chunk_for_streaming(delta)
      streams == should_stream(s, sm.recent_hashes)
      hashes == IF streams THEN Append(sm.recent_hashes, s.assistant_response)
                ELSE sm.recent_hashes
  IN [sm EXCEPT
        !.update = IF DOMAIN delta # {} /\ DOMAIN filtered_delta # {}
                   THEN PayloadKeys(filtered_delta) ELSE {},
        !.response = IF streams THEN s.assistant_response ELSE "none",
        !.events = IF streams THEN Append(@, s.assistant_response) ELSE @,
        !.recent_hashes = IF Len(hashes) > 3 THEN Tail(hashes) ELSE hashes]

\* one chunk of astream: node n has run; the delta against the clean copy
\* of the previous chunk is taken.  The copy is shallow: it holds the
\* classification dict of the state itself, as the filter left it.  An
\* overlay found in the delta under a hash not yet recorded is yielded
\* first, and the generator is suspended there
StreamChunk(t, n) ==
  /\ turn[t].pc = "run"
  /\ turn[t].at = n
  /\ Len(turn[t].trace) < RecursionLimit
  /\ \E o \in node_executor(n, turn[t].st) :
     \E cur \in {actual_state_data(o.st, Len(turn[t].trace) + 1)} :
     \E previous_state \in
          {IF Len(turn[t].trace) = 0 THEN <<>>
           ELSE _create_clean_state_copy_from_actual_data(
                  actual_state_data(turn[t].st, Len(turn[t].trace)))} :
     \E delta \in {_calculate_state_delta(cur, previous_state)} :
       LET nxt == NextNode(n, o.st)
           rec == [node |-> n, raised |-> o.raised, execs |-> o.execs,
                   tools |-> o.tools]
           seen ==
             IF Len(turn[t].trace) = 0 THEN <<>>
             ELSE [previous_state EXCEPT
                     !["classification_results"] = stream.arrived]
           h == overlay_hash(o.st)
           yields == /\ temp_attention_overlay(delta)
                     /\ h \notin stream.overlay_hashes
           sm == [stream EXCEPT
                    !.delta = DOMAIN delta,
                    !.arrived = cur["classification_results"],
                    !.changed = ChangedKeys(cur, seen),
                    !.sent = IF yields THEN @ \cup {h} ELSE @,
                    !.resent = IF yields /\ h \in stream.sent
                               THEN @ \cup {h} ELSE @]
       IN /\ turn' = [turn EXCEPT
                        ![t].st = IF nxt = "KeyError" \/ yields THEN o.st
                                  ELSE FilteredInPlace(o.st, delta),
                        ![t].trace = Append(@, n),
                        ![t].last = rec,
                        ![t].at = nxt,
                        ![t].pc = IF nxt = "KeyError" THEN "ended"
                                  ELSE IF yields THEN "yield"
                                  ELSE IF nxt = "END" THEN "save" ELSE "run",
                        ![t].out = IF nxt = "KeyError" THEN "error" ELSE @]
          /\ stream' = IF nxt = "KeyError" THEN stream
                       ELSE IF yields THEN sm
                       ELSE StreamUpdateAndResponse(sm, o.st, delta)
          /\ ghost' = IF n = "insurance"
                      THEN InsuranceEntry(ghost, turn[t].st) ELSE ghost
  /\ UNCHANGED <<store, started, intent>>

\* the consumer asks for the next event after the attention_overlay event:
\* the hash is recorded and the loop body goes on
AfterOverlay(t) ==
  LET cur == actual_state_data(turn[t].st, Len(turn[t].trace))
      delta == [k \in stream.delta |-> cur[k]]
  IN /\ turn[t].pc = "yield"
     /\ turn' = [turn EXCEPT
                  ![t].st = FilteredInPlace(@, delta),
                  ![t].pc = IF turn[t].at = "END" THEN "save" ELSE "run"]
     /\ stream' = StreamUpdateAndResponse(
                    [stream EXCEPT
                       !.overlay_hashes = @ \cup {overlay_hash(turn[t].st)}],
                    turn[t].st, delta)
     /\ UNCHANGED <<store, started, ghost, intent>>

StreamStep(t, limit) ==
  \/ StartTurn(t, limit)
  \/ \E n \in Nodes : StreamChunk(t, n)
  \/ AfterOverlay(t)
  \/ RecursionError(t)
  \/ stream_process_message(t)
  \/ Cancel(t)
  \/ Retire(t)

\* streamed turns of one session submitted one after the other
NextStream == StreamStep(1, MaxTurns)

SpecStream == Init /\ [][NextStream]_vars

---------------------------------------------------------------------------
(* properties *)

Occurrences(q, n) == Cardinality({k \in 1..Len(q) : q[k] = n})

LastNode(r) == r.trace[Len(r.trace)]

\* C1: whenever a node's execute raised during the latest executor call, the
\* state the executor returned carries the error recorded by set_error and
\* next_action = "error" (the exception itself never leaves the executor).
C1_ExecutorRecordsEveryException ==
  \A t \in Slots :
    turn[t].last.raised # "none" =>
      /\ turn[t].st.next_action = "error"
      /\ turn[t].st.error_message = "node_exception"

\* C2: a turn in flight has written nothing; a turn that ran to END through
\* either entry point has saved exactly once, after its last node, and the
\* stored session is that node's state (message log deduplicated and
\* classification dict filtered on the streaming path).
C2_OneSavePerTurn ==
  \A t \in Slots :
    LET r == turn[t]
    IN /\ r.pc \in {"run", "save"} => r.saves = 0 /\ store = r.loaded
       /\ (r.pc = "ended" /\ r.out = "ok") =>
            /\ r.saves = 1
            /\ r.at = "END"
            /\ store.current_node = LastNode(r)
            /\ [store EXCEPT !.messages = r.st.messages,
                              !.verbose_fields = r.st.verbose_fields] = r.st
            /\ store.verbose_fields =
                 (r.st.verbose_fields /\ r.entry # "stream")
            /\ store.messages = IF r.entry = "stream"
                                THEN DedupSeq(r.st.messages)
                                ELSE r.st.messages

C2_Witness ==
  \E t \in Slots :
    /\ turn[t].pc = "ended" /\ turn[t].out = "ok"
    /\ turn[t].entry = "stream"
    /\ turn[t].loaded.exists
    /\ LastNode(turn[t]) = "session_end"
    /\ store # turn[t].loaded

\* C3: a turn ended by an exception of the driver (loading the session, the
\* graph run, the stream events) has saved nothing and the stored session is
\* the one it loaded.
C3_DriverExceptionNoSave ==
  \A t \in Slots :
    (turn[t].pc = "ended" /\ turn[t].out = "error") =>
      turn[t].saves = 0 /\ store = turn[t].loaded

C3_Witness ==
  \E t \in Slots :
    /\ turn[t].pc = "ended" /\ turn[t].out = "error"
    /\ turn[t].entry = "stream"
    /\ store.exists /\ store.current_node = "completed"

C5_SerialisedWrites ==
  [][\A t \in Slots :
       turn'[t].saves = turn[t].saves + 1 =>
         /\ store = turn[t].loaded
         /\ ghost.lastWriter < turn[t].id]_vars

\* C6: after followup has run on an entry with previous_node = classifying
\* and classification results (prescribing and prescription data, insurance
\* and insurance results), that node is not the next node: the turn goes on
\* to its end.
C6_FollowupDoesNotReenter ==
  \A t \in Slots :
    LET r == turn[t]
    IN (r.pc \in {"run", "save"} /\ r.last.node = "followup") =>
         /\ (r.st.previous_node = "classifying"
               /\ r.st.classification_results) => r.at # "classifying"
         /\ (r.st.previous_node = "prescribing"
               /\ r.st.prescription_data) => r.at # "prescribing"
         /\ (r.st.previous_node = "insurance"
               /\ r.st.insurance_results # {}) => r.at # "insurance"

\* C7: the third consecutive entry of the same user_message into the
\* insurance node makes no tool call, appends the rephrase prompt and resets
\* insurance_action_count and last_insurance_message.  The entries counted
\* are those of this turn and of turns whose state was persisted (the
\* stored session names the message as the last insurance message).
C7_ThirdRepeatRephrases ==
  \A t \in Slots :
    LET r == turn[t]
    IN (r.pc \in {"run", "save"} /\ r.last.node = "insurance"
          /\ ghost.insRun = 3
          /\ \/ Occurrences(r.trace, "insurance") = 3
             \/ /\ r.loaded.exists
                /\ r.loaded.last_insurance_message = r.st.user_message) =>
         /\ r.last.tools = 0
         /\ r.st.messages[Len(r.st.messages)]
              = Msg("assistant", "rephrase_prompt")
         /\ r.st.insurance_action_count = 0
         /\ r.st.last_insurance_message = "none"

\* C8: a retry of the classifying node has incremented retry_count, and the
\* node runs at most 1 + max_retries times in a turn.
C8_BoundedRetries ==
  \A t \in Slots :
    LET r == turn[t]
    IN /\ Occurrences(r.trace, "classifying") <= 1 + max_retries
       /\ (r.pc = "run" /\ r.last.node = "classifying"
             /\ r.st.next_action = "retry") => r.st.retry_count >= 1

\* C9: the node selected after the initial node is classifying for
\* next_action = classify, insurance for insurance, error for error and
\* followup for every other value.
C9_RouteAfterInitial ==
  \A t \in Slots :
    LET r == turn[t]
    IN (r.pc \in {"run", "ended"} /\ r.last.node = "initial") =>
         r.at = CASE r.st.next_action = "classify" -> "classifying"
                  [] r.st.next_action = "insurance" -> "insurance"
                  [] r.st.next_action = "error" -> "error"
                  [] OTHER -> "followup"

C9_Witness ==
  \E t \in Slots :
    /\ turn[t].pc = "run" /\ turn[t].last.node = "initial"
    /\ turn[t].st.next_action = "insurance"
    /\ turn[t].at = "insurance"

\* C10: the node selected after the prescribing node is vendor_query for
\* next_action = vendor_query, completed for complete, prescribing for retry,
\* classifying for classify, error for error and followup otherwise.
C10_RouteAfterPrescribing ==
  \A t \in Slots :
    LET r == turn[t]
    IN (r.pc \in {"run", "ended"} /\ r.last.node = "prescribing") =>
         r.at = CASE r.st.next_action = "vendor_query" -> "vendor_query"
                  [] r.st.next_action = "complete" -> "completed"
                  [] r.st.next_action = "retry" -> "prescribing"
                  [] r.st.next_action = "classify" -> "classifying"
                  [] r.st.next_action = "error" -> "error"
                  [] OTHER -> "followup"

---------------------------------------------------------------------------
(* traversals of a turn *)

Said(s, c) == \E k \in 1..Len(s.messages) : s.messages[k].content = c

IsPrefix(p, q) == Len(p) <= Len(q) /\ p = SubSeq(q, 1, Len(p))

\* a turn on a session nothing was stored for, none of whose nodes has
\* recorded an error so far
NewSessionTurn(r) ==
  /\ r.pc \in {"run", "save", "ended"}
  /\ r.st.exists
  /\ ~r.loaded.exists
  /\ r.st.error_message = "none"

\* C11: on a new session, a message with an image and a classification-only
\* intent whose classification tool call succeeds at once traverses
\* initial, classifying, followup, completed, each node once, and nothing
\* else.
C11_ClassifyOnlyTraversal ==
  \A t \in Slots :
    LET r == turn[t]
        path == <<"initial", "classifying", "followup", "completed">>
    IN (NewSessionTurn(r)
          /\ r.st.user_message = "m_diagnose" /\ r.st.user_image
          /\ ~Said(r.st, "retrying")) =>
         /\ IsPrefix(r.trace, path)
         /\ r.at = IF Len(r.trace) < 4 THEN path[Len(r.trace) + 1] ELSE "END"

C11_Witness ==
  \E t \in Slots :
    /\ NewSessionTurn(turn[t])
    /\ turn[t].pc = "ended" /\ turn[t].out = "ok"
    /\ turn[t].st.user_message = "m_diagnose"
    /\ turn[t].st.disease_name = "blight"
    /\ turn[t].trace = <<"initial", "classifying", "followup", "completed">>

LaterTurn(r) ==
  /\ r.pc \in {"run", "save", "ended"}
  /\ r.st.exists
  /\ r.loaded.exists
  /\ r.st.error_message = r.loaded.error_message
  /\ r.st.retry_count = r.loaded.retry_count

\* C13: a goodbye message in a session that has already completed a
\* workflow traverses initial, session_end and the turn ends with
\* session_ended = TRUE.
C13_GoodbyeTraversal ==
  \A t \in Slots :
    LET r == turn[t]
        path == <<"initial", "session_end">>
    IN (LaterTurn(r) /\ r.st.user_message = "m_bye") =>
         /\ IsPrefix(r.trace, path)
         /\ r.at = IF Len(r.trace) < 2 THEN path[Len(r.trace) + 1] ELSE "END"
         /\ r.at = "END" => r.st.session_ended

\* C13 (amended): a goodbye message in a session that has already completed
\* a workflow traverses initial, followup, session_end (the initial node
\* hands the turn to followup, which detects the goodbye) and the turn ends
\* with session_ended = TRUE.
C13_GoodbyeViaFollowup ==
  \A t \in Slots :
    LET r == turn[t]
        path == <<"initial", "followup", "session_end">>
    IN (LaterTurn(r) /\ r.st.user_message = "m_bye") =>
         /\ IsPrefix(r.trace, path)
         /\ r.at = IF Len(r.trace) < 3 THEN path[Len(r.trace) + 1] ELSE "END"
         /\ r.at = "END" => r.st.session_ended

C13_Witness ==
  \E t \in Slots :
    /\ LaterTurn(turn[t])
    /\ turn[t].loaded.current_node = "completed"
    /\ turn[t].loaded.classification_results
    /\ turn[t].pc = "ended" /\ turn[t].out = "ok"
    /\ turn[t].st.user_message = "m_bye"
    /\ turn[t].trace = <<"initial", "followup", "session_end">>
    /\ turn[t].st.session_ended

---------------------------------------------------------------------------
(* error recovery *)

\* the messages a turn has appended to the log it loaded
TurnMessages(r) ==
  SubSeq(r.st.messages,
         (IF r.loaded.exists THEN Len(r.loaded.messages) ELSE 0) + 1,
         Len(r.st.messages))

CountSaid(q, role, c) ==
  Cardinality({k \in 1..Len(q) : q[k] = Msg(role, c)})

---------------------------------------------------------------------------
(* continuing-conversation detection *)

\* the initial node has just run as the first node of the turn
AfterInitial(r) ==
  /\ r.pc \in {"run", "ended"}
  /\ r.st.exists
  /\ Len(r.trace) = 1
  /\ r.last.node = "initial"

\* the initial node took the short cut to followup: no intent analysis, no
\* goodbye check, no context extraction
ShortCircuited(r) == r.st.next_action = "followup" /\ r.last.tools = 0

\* C15: once session_ended is true in the persisted state, the initial node
\* of every later turn treats the turn as a new conversation: the intent of
\* the new message is analysed and stored and there is no short cut to
\* followup, whatever the loaded history holds.
C15_EndedSessionStartsNew ==
  \A t \in Slots :
    LET r == turn[t]
    IN (AfterInitial(r) /\ r.loaded.exists /\ r.loaded.session_ended) =>
         /\ ~ShortCircuited(r)
         /\ r.st.user_intent = _analyze_user_intent(r.st.user_message)
         /\ r.at # "KeyError"

C15_Witness ==
  \E t \in Slots :
    /\ AfterInitial(turn[t])
    /\ turn[t].loaded.exists /\ turn[t].loaded.session_ended
    /\ HasAssistantMessage(turn[t].loaded)
    /\ turn[t].st.user_message = "m_diagnose"
    /\ turn[t].st.next_action = "classify"

\* C16: the initial node takes the short cut to followup exactly when the
\* session has not ended and workflow results exist, or an assistant
\* message was logged before, or the node the session was in before this
\* turn's initial node ran (previous_node) is not initial.
C16_ShortCircuitExactly ==
  \A t \in Slots :
    LET r == turn[t]
        l == r.loaded
    IN AfterInitial(r) =>
         (ShortCircuited(r) <=>
            /\ l.exists
            /\ ~l.session_ended
            /\ \/ l.classification_results \/ l.prescription_data
               \/ HasAssistantMessage(l)
               \/ r.st.previous_node # "initial")

---------------------------------------------------------------------------
(* end of session *)

\* C17: the session_end node runs only in a turn whose message the goodbye
\* detection of the initial or the followup node answered yes to, it is
\* entered from followup only, the completed node always ends the run, and
\* session_ended becomes true only in a turn that ran session_end.
C17_OnlyGoodbyeEndsSession ==
  \A t \in Slots :
    LET r == turn[t]
    IN (r.pc \in {"run", "save", "ended"} /\ r.st.exists) =>
         /\ (Occurrences(r.trace, "session_end") >= 1 \/ r.at = "session_end")
              => /\ IsGoodbye(r.st.user_message)
                 /\ Occurrences(r.trace, "followup") >= 1
                 /\ Occurrences(r.trace, "completed") = 0
         /\ (Len(r.trace) >= 1 /\ r.last.node = "completed") => r.at = "END"
         /\ (r.st.session_ended
               /\ ~(r.loaded.exists /\ r.loaded.session_ended))
              => Occurrences(r.trace, "session_end") = 1

C17_Witness ==
  \E t \in Slots :
    /\ turn[t].pc = "ended" /\ turn[t].out = "ok"
    /\ turn[t].loaded.exists /\ ~turn[t].loaded.session_ended
    /\ turn[t].loaded.current_node = "completed"
    /\ LastNode(turn[t]) = "session_end"
    /\ turn[t].st.session_ended
    /\ store.session_ended

---------------------------------------------------------------------------
(* streaming layer *)

\* a chunk has been turned into events: the log describes the last node
ChunkDone(r) == r.pc \in {"run", "save"} /\ Len(r.trace) >= 1

\* C18: the payload of a state_update event holds none of the keys
\* user_image, attention_overlay, messages and last_update_time, neither at
\* its top level nor inside the classification dict it carries.
C18_StateUpdateOmitsBulkKeys ==
  stream.update \cap
    {"user_image", "attention_overlay", "messages", "last_update_time"} = {}

\* a chunk whose classification dict came in with its overlay has been sent
\* as a state_update that carries the classification
C18_Witness ==
  /\ ChunkDone(turn[1])
  /\ "attention_overlay" \in stream.arrived
  /\ "classification_results" \in stream.update
  /\ "disease_name" \in stream.update

\* C19: the delta of a chunk is exactly the set of keys whose value is not
\* the one the previous chunk of the turn came in with (every key on the
\* first chunk), less user_image, image, attention_overlay, messages and
\* last_update_time; a change made in place inside a nested value counts.
C19_DeltaIsExactlyTheChange ==
  \A t \in Slots :
    (turn[t].pc \in {"run", "yield", "save"} /\ Len(turn[t].trace) >= 1) =>
      stream.delta =
        stream.changed \ {"user_image", "image", "attention_overlay",
                          "messages", "last_update_time"}

\* C20: within a session, across all its turns, no attention_overlay event
\* is sent a second time for the same overlay content and source node.
C20_OverlaySentOncePerHash == stream.resent = {}

\* C21: an overlay a tool produced in a streamed turn has been sent as an
\* attention_overlay event by the time its chunk is handled, and no overlay
\* content is sent twice in the session, be it in the same turn or a later
\* one, from the same node or another.
C21_OverlayDeliveredExactlyOnce ==
  /\ \A t \in Slots :
       (/\ turn[t].pc \in {"yield", "run", "save"}
        /\ Len(turn[t].trace) >= 1
        /\ "attention_overlay" \in stream.arrived) =>
         \E h \in stream.sent : h[1] = turn[t].st.disease_name
  /\ stream.resent = {}
  /\ \A h1, h2 \in stream.sent : h1[1] = h2[1] => h1 = h2

---------------------------------------------------------------------------
(* persistence of tool results *)

\* C22: the state handed to save_state by either entry point holds no
\* attention_overlay, neither as a key of its own nor inside the
\* classification dict.
C22_OverlayNeverPersisted ==
  store.exists =>
    "attention_overlay" \notin
      (DOMAIN store \cup _format_final_result(store))

---------------------------------------------------------------------------
(* assistant_response events *)

\* the step ends the handling of a chunk of turn t
HandlesChunk(t) ==
  /\ turn[t].pc \in {"run", "yield"}
  /\ turn'[t].pc \in {"run", "save"}
  /\ \/ turn[t].pc = "yield"
     \/ Len(turn'[t].trace) = Len(turn[t].trace) + 1

\* q holds c
Holds(q, c) == \E i \in 1..Len(q) : q[i] = c

RECURSIVE Embeds(_, _)
Embeds(e, q) ==
  IF e = <<>> THEN TRUE
  ELSE IF q = <<>> THEN FALSE
  ELSE IF q[1] = Msg("assistant", e[1]) THEN Embeds(Tail(e), Tail(q))
  ELSE Embeds(e, Tail(q))

\* C24: the texts of the assistant_response events of a turn are assistant
\* messages the turn appended to the conversation log, in the order of the
\* events.
C24_EventsFollowTheLog ==
  \A t \in Slots :
    turn[t].pc \in {"run", "yield", "save"} =>
      Embeds(stream.events, TurnMessages(turn[t]))

---------------------------------------------------------------------------
(* conversation log *)

\* the roles that occur in the log of s
RolesOf(s) == {s.messages[k].role : k \in 1..Len(s.messages)}

\* C25: every message of the conversation log, in a turn under way and in
\* the stored session, has role user, assistant or system; the replies the
\* nodes append, the out-of-scope apology among them, are assistant
\* messages.
C25_MessageRoles ==
  /\ store.exists => RolesOf(store) \subseteq {"user", "assistant", "system"}
  /\ \A t \in Slots :
       turn[t].st.exists =>
         /\ RolesOf(turn[t].st) \subseteq {"user", "assistant", "system"}
         /\ turn[t].st.assistant_response = "oos_apology" =>
              \E k \in 1..Len(turn[t].st.messages) :
                turn[t].st.messages[k] = Msg("assistant", "oos_apology")

---------------------------------------------------------------------------
(* error state *)

\* the turn appended the report of a successful classification or insurance
\* operation and recorded no error of its own (set_error logs a system
\* message)
SucceededWithoutError(r) ==
  LET q == TurnMessages(r)
  IN /\ \E k \in 1..Len(q) :
          /\ q[k].role = "assistant"
          /\ q[k].content \in {"classification_report",
                               "followup_classification",
                               "insurance_response"}
     /\ \A k \in 1..Len(q) : q[k].role # "system"

\* C26: a turn that found an error recorded in the session and whose
\* operation succeeded saves a state without error_message and with
\* retry_count back at 0.
C26_SuccessClearsError ==
  \A t \in Slots :
    LET r == turn[t]
    IN (/\ r.pc = "ended" /\ r.out = "ok"
        /\ r.loaded.exists /\ r.loaded.error_message # "none"
        /\ SucceededWithoutError(r)) =>
         store.error_message = "none" /\ store.retry_count = 0

\* the result fields of service v are present in s
HasResults(v, s) ==
  \/ v = "classification" /\ s.classification_results
  \/ v = "prescription" /\ s.prescription_data
  \/ v = "insurance" /\ s.insurance_results # {}

---------------------------------------------------------------------------
(* insurance: required context *)

\* one of state, area_hectare, crop is known neither from the state nor
\* from the user message
MissingRequiredField(s) ==
  \/ ~s.location
  \/ ~(s.area_hectare \/ MentionsArea(s.user_message))
  \/ ~(s.crop \/ MentionsCrop(s.user_message))

\* the insurance node has just run and went past its repeated-message guard
\* to the context extraction
InsuranceExtracted(r) ==
  /\ r.pc \in {"run", "save"}
  /\ r.last.node = "insurance"
  /\ r.st.insurance_context
  /\ r.st.last_insurance_message = r.st.user_message

---------------------------------------------------------------------------
(* insurance: frame of the classification fields *)

\* the turn ran initial, insurance and completed, and was saved
InsuranceOnlyTurn(r) ==
  /\ r.pc = "ended" /\ r.out = "ok"
  /\ r.trace = <<"initial", "insurance", "completed">>

\* the state the turn started from: the stored session, a blank state when
\* there is none
AtStart(r) == IF r.loaded.exists THEN r.loaded ELSE BlankState

\* C29: a turn that runs only initial, insurance and completed persists
\* classification_results and disease_name as they were when the turn
\* started, the sub-fields of classification_results included.
C29_InsuranceKeepsClassification ==
  \A t \in Slots :
    InsuranceOnlyTurn(turn[t]) =>
      /\ store.classification_results = AtStart(turn[t]).classification_results
      /\ store.disease_name = AtStart(turn[t]).disease_name
      /\ store.verbose_fields = AtStart(turn[t]).verbose_fields

---------------------------------------------------------------------------
(* out-of-scope turns *)

\* the intent analysis calls the message of the turn out of scope
OutOfScopeTurn(r) ==
  /\ r.pc \in {"run", "save"}
  /\ Len(r.trace) >= 1
  /\ OutOfScope(_analyze_user_intent(r.st.user_message))

\* C30: in a turn whose intent is classified out_of_scope no node calls a
\* tool: not the context extractor, not the classification, prescription
\* or insurance tool.
C30_OutOfScopeCallsNoTool ==
  \A t \in Slots :
    OutOfScopeTurn(turn[t]) => turn[t].last.tools = 0

---------------------------------------------------------------------------
(* intent analysis of the initial node.  A reply of the LLM is the set of   *)
(* flags it sets to true (a flag it leaves out counts as false); a user     *)
(* message is the set of keyword groups of the fallback it contains.        *)

WantsFlags == {"wants_classification", "wants_prescription", "wants_vendors",
               "wants_full_workflow", "wants_insurance"}

IntentFlags == WantsFlags \cup {"is_general_question", "out_of_scope"}

KeywordGroups == {"classification_keywords", "prescription_keywords",
                  "vendor", "full_keywords", "general_keywords",
                  "farming_keywords"}

\* the JSON of the reply over the defaults, then the dependency rules, which
\* are skipped for a general question
_parse_intent_response(reply) ==
  LET t0 == reply
      t1 == IF t0 \cap {"wants_prescription", "wants_vendors",
                        "wants_full_workflow"} # {}
            THEN t0 \cup {"wants_classification"} ELSE t0
      t2 == IF t1 \cap {"wants_vendors", "wants_full_workflow"} # {}
            THEN t1 \cup {"wants_prescription", "wants_classification"}
            ELSE t1
      t3 == IF "wants_full_workflow" \in t2
            THEN t2 \cup {"wants_vendors", "wants_prescription",
                          "wants_classification"}
            ELSE t2
  IN [done |-> TRUE, keys |-> IntentFlags,
      true |-> IF "is_general_question" \in t0 THEN t0 ELSE t3]

\* keyword matching when the LLM fails or its reply holds no JSON
_fallback_intent_analysis(message) ==
  LET c == IF "classification_keywords" \in message
           THEN {"wants_classification"} ELSE {}
      p == IF "prescription_keywords" \in message
           THEN {"wants_prescription", "wants_classification"} ELSE {}
      v == IF "vendor" \in message
           THEN {"wants_vendors", "wants_prescription",
                 "wants_classification"} ELSE {}
      f == IF "full_keywords" \in message
           THEN {"wants_full_workflow", "wants_vendors",
                 "wants_prescription", "wants_classification"} ELSE {}
      tools == c \cup p \cup v \cup f
      g == IF /\ "general_keywords" \in message
              /\ "farming_keywords" \in message
              /\ tools \cap {"wants_classification", "wants_prescription",
                             "wants_vendors"} = {}
           THEN {"is_general_question"} ELSE {}
  IN [done |-> TRUE,
      keys |-> {"wants_classification", "wants_prescription", "wants_vendors",
                "wants_full_workflow", "is_general_question"},
      true |-> tools \cup g]

\* a user message and the reply the LLM would give to its intent prompt
InitIntent ==
  /\ store = NoState
  /\ turn = [t \in Slots |-> IdleTurn]
  /\ started = 0
  /\ ghost = NoGhost
  /\ stream = NoStream
  /\ \E k \in SUBSET KeywordGroups :
       \/ \E r \in SUBSET IntentFlags :
            intent = [json |-> TRUE, reply |-> r, message |-> k,
                      record |-> NoRecord]
       \/ intent = [json |-> FALSE, reply |-> {}, message |-> k,
                    record |-> NoRecord]

\* _analyze_user_intent: the reply parses
AnalyzeIntentParsed ==
  /\ ~intent.record.done
  /\ intent.json
  /\ intent' = [intent EXCEPT !.record = _parse_intent_response(intent.reply)]
  /\ UNCHANGED <<store, turn, started, ghost, stream>>

\* _analyze_user_intent: the LLM call raises or the reply holds no JSON
AnalyzeIntentFallback ==
  /\ ~intent.record.done
  /\ intent' = [intent EXCEPT
                  !.record = _fallback_intent_analysis(intent.message)]
  /\ UNCHANGED <<store, turn, started, ghost, stream>>

NextIntent == AnalyzeIntentParsed \/ AnalyzeIntentFallback

SpecIntent == InitIntent /\ [][NextIntent]_vars

\* C31: every intent record closes the dependencies: wants_prescription
\* implies wants_classification; wants_full_workflow implies
\* wants_prescription and wants_classification.
C31_IntentDependencyClosure ==
  intent.record.done =>
    /\ "wants_prescription" \in intent.record.true =>
         "wants_classification" \in intent.record.true
    /\ "wants_full_workflow" \in intent.record.true =>
         {"wants_prescription", "wants_classification"}
           \subseteq intent.record.true

\* C32: an intent record with out_of_scope true has every wants_* flag and
\* is_general_question false.
C32_OutOfScopeClearsFlags ==
  (intent.record.done /\ "out_of_scope" \in intent.record.true) =>
    intent.record.true \cap (WantsFlags \cup {"is_general_question"}) = {}

---------------------------------------------------------------------------
(* direct responses of the followup node *)

\* the followup node has just answered the user directly
DirectResponseGiven(r) ==
  /\ ChunkDone(r)
  /\ r.last.node = "followup" /\ r.last.raised = "none"
  /\ r.st.assistant_response = "direct_answer"
  /\ r.st.next_action = "await_user_input"

\* the completed node has just enhanced a direct response of this turn
DirectResponseCompleted(r) ==
  /\ ChunkDone(r)
  /\ r.last.node = "completed" /\ r.last.raised = "none"
  /\ r.st.previous_node = "followup"
  /\ r.st.assistant_response = _create_clean_followup_response("direct_answer")

\* C33: a direct response of the followup node is marked intermediate and is
\* not sent as an assistant_response event; the turn goes on to the
\* completed node, and the completed node's message is the
\* assistant_response event of the turn.
C33_DirectResponseSentByCompleted ==
  LET r == turn[1]
  IN /\ DirectResponseGiven(r) =>
          /\ r.st.response_status = "intermediate"
          /\ stream.response = "none"
          /\ stream.events = <<>>
          /\ r.at = "completed"
     /\ DirectResponseCompleted(r) =>
          stream.events = <<r.st.assistant_response>>

---------------------------------------------------------------------------
(* what the user is shown of an error *)

\* texts that quote the recorded error: the last two categories of the
\* error node, and the retry notice of the classifying node
QuotesError(c) == c \in {"technical_issue", "unexpected_error", "retrying"}

\* the assistant messages of log q
ShownTexts(q) ==
  {q[i].content : i \in {j \in 1..Len(q) : q[j].role = "assistant"}}

\* C34: no assistant message and no assistant_response event quotes the
\* recorded error_message, a tool's error report or the text of an
\* exception.
C34_NoInternalTextShown ==
  /\ \A t \in Slots :
       turn[t].st.exists =>
         \A c \in ShownTexts(turn[t].st.messages) : ~QuotesError(c)
  /\ \A i \in 1..Len(stream.events) : ~QuotesError(stream.events[i])

---------------------------------------------------------------------------
(* termination of a turn *)

\* C35: no cycle among the nodes repeats without bound within a turn: a
\* node is executed at most once for the first attempt and once for each of
\* the max_retries retries (the insurance guard stops at the third entry),
\* so the turn reaches END before the step budget of the graph is used up.
C35_NoUnboundedCycle ==
  \A t \in Slots :
    /\ \A n \in Nodes : Occurrences(turn[t].trace, n) <= max_retries + 1
    /\ turn[t].pc = "run" =>
         \/ Len(turn[t].trace) < RecursionLimit
         \/ \A n \in Nodes : Occurrences(turn[t].trace, n) <= 1

---------------------------------------------------------------------------
(* insurance: after the rephrase prompt *)

\* the loop guard of the insurance node has fired in this turn
RephraseIssued(r) ==
  /\ r.pc \in {"run", "save"}
  /\ CountSaid(TurnMessages(r), "assistant", "rephrase_prompt") >= 1

\* C36: once the insurance node has issued the rephrase prompt, no later
\* step of the turn runs the insurance node or calls a tool, and the turn
\* ends waiting for user input.
C36_RephraseEndsTurn ==
  \A t \in Slots :
    LET r == turn[t]
    IN RephraseIssued(r) =>
         /\ r.last.tools = 0
         /\ r.last.node = "insurance" =>
              /\ r.st.next_action = "await_user_input"
              /\ r.st.last_insurance_message = "none"
         /\ r.pc = "save" => r.st.requires_user_input

---------------------------------------------------------------------------
(* routing of a recorded error *)

\* the last node of the turn, or the executor around it, left an error
\* recorded in the state with next_action "error"
ErrorRecorded(r) ==
  /\ r.pc \in {"run", "save"}
  /\ r.last.node \notin {"none", "error"}
  /\ r.st.next_action = "error"
  /\ r.st.error_message # "none"

\* C37: whenever a node or the executor has recorded an error and set
\* next_action to "error", the error node is the node executed next,
\* whichever node was the source.
C37_ErrorRoutesToErrorNode ==
  \A t \in Slots :
    ErrorRecorded(turn[t]) => turn[t].pc = "run" /\ turn[t].at = "error"

---------------------------------------------------------------------------
(* executions of a node per executor call *)

\* C38: one call of the executor runs the execute method of its node at
\* most once, whatever the type of the exception the node raises.
C38_NodeExecutedOnce ==
  \A t \in Slots : turn[t].last.execs <= 1

---------------------------------------------------------------------------
(* a streamed turn that ends at the completed node *)

\* the completed node was the last node of the streamed turn and wrote its
\* completion text
EndedAtCompleted(r) ==
  /\ r.pc = "save"
  /\ r.last.node = "completed" /\ r.last.raised = "none"

\* C39: a streamed turn that ends at the completed node has delivered at
\* least one assistant_response event, also when the completion text is the
\* text of a reply sent in an earlier turn.
C39_CompletedTurnDeliversResponse ==
  \A t \in Slots :
    EndedAtCompleted(turn[t]) => Len(stream.events) >= 1

---------------------------------------------------------------------------
(* one session served by both entry points *)

\* process_message is called: the entry point of the turn is fixed from the
\* start, the graph is run by ainvoke and nothing is streamed
StartInvoke(t, limit) ==
  /\ turn[t].pc = "idle"
  /\ started < limit
  /\ \E m \in Msgs : \E img \in Images(m) :
       turn' = [turn EXCEPT ![t] =
                  [IdleTurn EXCEPT !.pc = "run",
                                   !.entry = "process",
                                   !.id = started + 1,
                                   !.loaded = store,
                                   !.at = "initial",
                                   !.st = get_or_create_state(store, m, img)]]
  /\ started' = started + 1
  /\ UNCHANGED <<store, ghost, stream, intent>>

\* one node of a turn run by ainvoke
Invoke(t, n) == turn[t].entry = "process" /\ RunNode(t, n)

\* one chunk of a turn run by astream
Stream(t, n) == turn[t].entry = "none" /\ StreamChunk(t, n)

InvokeSave(t) == turn[t].entry = "process" /\ process_message(t)

StreamSave(t) == turn[t].entry = "none" /\ stream_process_message(t)

MixedStep(t, limit) ==
  \/ StartTurn(t, limit)
  \/ StartInvoke(t, limit)
  \/ \E n \in Nodes : Invoke(t, n)
  \/ \E n \in Nodes : Stream(t, n)
  \/ AfterOverlay(t)
  \/ RecursionError(t)
  \/ InvokeSave(t)
  \/ StreamSave(t)
  \/ Retire(t)

\* turns of one session, each through either entry point
NextMixed == MixedStep(1, MaxTurns)

SpecMixed == Init /\ [][NextMixed]_vars

---------------------------------------------------------------------------
(* the response left in the session by an earlier turn *)

\* the first chunk of a streamed turn of a continuing conversation: the
\* initial node has returned without writing a response, the state still
\* holds the response the earlier turn left in the session
StaleResponseChunk(r) ==
  /\ ChunkDone(r)
  /\ r.trace = <<"initial">> /\ r.last.raised = "none"
  /\ r.loaded.exists
  /\ _is_continuing_conversation(
       get_or_create_state(r.loaded, r.st.user_message, r.st.user_image))
  /\ r.loaded.assistant_response # "none"
  /\ r.st.assistant_response = r.loaded.assistant_response

\* C40: an assistant_response event carries text written by a node of the
\* turn it is sent in: the response an earlier turn left in the session is
\* not sent again on the chunk of a node that wrote none.
C40_StaleResponseNotResent ==
  \A t \in Slots :
    StaleResponseChunk(turn[t]) =>
      stream.response = "none" /\ stream.events = <<>>

====
